---- MODULE Spec2Model ----
(***************************************************************************)
(* Model of shaku's runtime Container (src/shaku/src/container/            *)
(* container.rs) and of the provider contracts it dispatches to            *)
(* (src/shaku/src/provider.rs).                                            *)
(*                                                                         *)
(* A Container owns a module (one Arc per component interface) and a       *)
(* type-keyed map of provider overrides.  resolve clones the module's Arc, *)
(* resolve_ref borrows it, resolve_mut is Arc::get_mut on it, and provide  *)
(* runs the override factory when the map holds one and the module's       *)
(* default provider otherwise.  Providers are caller-supplied code that    *)
(* may call back into the container, so a provide in progress is a stack   *)
(* of frames.                                                              *)
(***************************************************************************)
EXTENDS Naturals, Sequences, FiniteSets

VARIABLES
    phase,                \* "builder" until build(), then "built"
    registered,           \* what the caller asked the builder to override (providers)
    component_overrides,  \* ContainerBuilder: component interface -> instance
    provider_overrides,   \* Container.provider_overrides: type key -> factory
    module,               \* Container.module: component interface -> Arc
    handles,              \* Arc<I> handles the caller still owns
    refs,                 \* interfaces with a live &I from resolve_ref
    mutref,               \* the live &mut I from resolve_mut, as an Option
    stack,                \* provide calls in progress, innermost last
    boxes,                \* Box<I> services the caller still owns
    next_id,              \* number of service instances constructed so far
    last                  \* the operation that ran last and what it returned

vars == <<phase, registered, component_overrides, provider_overrides, module,
          handles, refs, mutref, stack, boxes, next_id, last>>

----------------------------------------------------------------------------
\* Bounds of the model.

\* Arc handles the caller holds at once.
MaxHandles == 2
\* Boxed services the caller holds at once.
MaxBoxes == 2
\* Service instances constructed over the container's lifetime.
MaxIds == 3
\* Interfaces overridden (component or provider) on one builder.
MaxOverrides == 1

----------------------------------------------------------------------------
\* The module under test: two components, three providers in a chain.

Components == {"Foo", "Bar"}
Provided == {"P1", "P2", "P3"}

\* The instance the module builds for a component when nothing overrides it.
DefaultInst(I) == IF I = "Foo" THEN "FooImpl" ELSE "BarImpl"

\* Instances a caller may hand to with_component_override.
OverrideInsts == {"Mock"}

None == <<>>
Some(x) == <<x>>

Ok(b) == [kind |-> "Ok", val |-> b]
Err(e) == [kind |-> "Err", val |-> e]

\* What a provider asks of the container while it constructs its service.
Deps(I) ==
    CASE I = "P1" -> << [call |-> "provide", iface |-> "P2"] >>
      [] I = "P2" -> << [call |-> "provide", iface |-> "P3"],
                        [call |-> "resolve", iface |-> "Foo"] >>
      [] OTHER    -> << >>

\* The error a default provider reports when its own construction fails.
ErrOf(I) == [msg |-> I]

\* Provider<M, I>::provide of the module's implementation for I: it may ask
\* the container for its dependencies and then returns a service or an error.
Impl(I) == [kind |-> "default", name |-> I, deps |-> Deps(I),
            outcomes |-> {"ok", "err"}, err |-> ErrOf(I)]

\* Factories a caller may hand to with_provider_override (a ProviderFn).
OverrideFns ==
    { [kind |-> "override", name |-> "fake", deps |-> << >>,
       outcomes |-> {"ok"}, err |-> [msg |-> "unused"]],
      [kind |-> "override", name |-> "failing", deps |-> << >>,
       outcomes |-> {"err"}, err |-> [msg |-> "injected"]] }

\* The concrete type behind an interface's provider: P2 and P3 share one.
ImplType(I) == IF I = "P1" THEN "ImplA" ELSE "ImplB"

----------------------------------------------------------------------------
\* The override map (ComponentMap): a map keyed by the static type of the entry.

\* Mutant: the key forgets the interface and names the implementation type.
ProviderFnKeyByImpl(I) == <<"ProviderFn", ImplType(I)>>

\* The key under which the override for interface I is stored and looked up:
\* the type ProviderFn<M, I>.
ProviderFnKey(I) == <<"ProviderFn", I>>

\* ComponentMap::get: the entry stored under exactly this key, if any.
get(map, key) == IF key \in DOMAIN map THEN Some(map[key]) ELSE None

\* ComponentMap::insert: a later insert under the same key replaces the entry.
insert(map, key, v) ==
    [k \in DOMAIN map \cup {key} |-> IF k = key THEN v ELSE map[k]]

\* Mutant: the lookup takes the entry out of the map (remove for get).
after_get_take(map, key) == [k \in DOMAIN map \ {key} |-> map[k]]

\* provide borrows the map (get takes &self): the map after the lookup.
after_get(map, key) == map

----------------------------------------------------------------------------
\* Container operations, as functions of the container's state.

\* Mutant: the accessor hands out the module's default component, whatever
\* was overridden.
get_ref_default(I) == [inst |-> DefaultInst(I), strong |-> module[I].strong]

\* HasComponent::get_ref / get_mut: the module's Arc for interface I.
get_ref(I) == module[I]

\* Arc::clone: a new handle to the same instance, one more strong reference.
ArcClone(a) == [handle |-> [inst |-> a.inst],
                arc    |-> [a EXCEPT !.strong = @ + 1]]

\* Mutant: a unique-ownership test that is off by one.
ArcGetMutOffByOne(a) == IF a.strong <= 2 THEN Some(a.inst) ELSE None

\* Arc::get_mut: the instance, only when this Arc is its sole owner.
ArcGetMut(a) == IF a.strong = 1 THEN Some(a.inst) ELSE None

\* Mutant: resolve wraps a copy of the component in a new Arc.
resolve_copy(I) == [handle |-> [inst |-> "Copy"], arc |-> module[I]]

\* Container::resolve
resolve(I) == ArcClone(get_ref(I))

\* Container::resolve_ref
resolve_ref(I) == get_ref(I).inst

\* Mutant: resolve_mut hands out the reference without asking who else owns it.
resolve_mut_unchecked(I) == Some(module[I].inst)

\* Container::resolve_mut
resolve_mut(I) == ArcGetMut(get_ref(I))

\* Mutant: provide never consults the override map.
provide_default(I) == Impl(I)

\* Container::provide, the dispatch: the override for I when the map holds
\* one, the module's default provider for I otherwise.
provide(I) ==
    LET o == get(provider_overrides, ProviderFnKey(I))
    IN  IF o # None THEN o[1] ELSE Impl(I)

\* Mutant: provide wraps the factory's error in an error of its own.
provide_outcome_wrap(r) ==
    [done |-> TRUE,
     value |-> IF r.kind = "Err" THEN Err([wrapped |-> r.val]) ELSE r]

\* Mutant: provide hands out an instance it handed out before.
provide_outcome_cached(r) ==
    [done |-> TRUE,
     value |-> IF r.kind = "Ok" /\ boxes # << >> THEN Ok(boxes[1]) ELSE r]

\* Mutant: provide calls the factory again when it fails.
provide_outcome_retry(r) == [done |-> r.kind # "Err", value |-> r]

\* Container::provide, the result: what the factory returned is what the
\* call returns, and the call is over (done) once the factory has returned.
provide_outcome(r) == [done |-> TRUE, value |-> r]

\* A method taking &self runs only while no &mut borrow of the container lives.
SharedBorrow == mutref = None

\* A method taking &mut self runs only while nothing else borrows the container.
ExclusiveBorrow == mutref = None /\ refs = {} /\ stack = << >>

\* Dropping Arc handles to the interfaces in S: one strong reference less each.
DropArcs(m, S) ==
    [I \in DOMAIN m |-> IF I \in S THEN [m[I] EXCEPT !.strong = @ - 1] ELSE m[I]]

\* The identity of the n-th service instance a provider constructs (Box::new).
NewBox(n) == n + 1

\* The frame of a provide call on interface I that has just begun.
Frame(I, snapshot) ==
    [iface |-> I, fn |-> provide(I), pc |-> 1, held |-> {}, res |-> None,
     org |-> None, pre |-> snapshot]

\* The most service instances one provide(I) constructs: its own and those
\* of the providers it asks for.
RECURSIVE Need(_)
Need(I) ==
    LET d == Deps(I)
        sub == {i \in 1..Len(d) : d[i].call = "provide"}
    IN  IF sub = {} THEN 1
        ELSE 1 + Need(d[CHOOSE i \in sub : TRUE].iface)

Top == stack[Len(stack)]
Caller == SubSeq(stack, 1, Len(stack) - 1)
Remove(s, i) == SubSeq(s, 1, i - 1) \o SubSeq(s, i + 1, Len(s))
\* What last holds: the operation, its interface, the component instance it
\* returned (resolve, resolve_ref, resolve_mut with some), or what a provide
\* call ran or returned.
NoCall == [kind |-> "none"]
Saw(op, I, inst, some, call) ==
    [op |-> op, iface |-> I, inst |-> inst, some |-> some, call |-> call]
\* What an operation that returns nothing to observe leaves in last.
Quiet == Saw("none", "", "", FALSE, NoCall)

----------------------------------------------------------------------------
\* ContainerBuilder.

Init ==
    /\ phase = "builder"
    /\ registered = << >>
    /\ component_overrides = << >>
    /\ provider_overrides = << >>
    /\ module = << >>
    /\ handles = << >>
    /\ refs = {}
    /\ mutref = None
    /\ stack = << >>
    /\ boxes = << >>
    /\ next_id = 0
    /\ last = Quiet

NOverrides == Cardinality(DOMAIN component_overrides) + Cardinality(DOMAIN registered)

with_component_override(I, inst) ==
    /\ phase = "builder"
    /\ I \in DOMAIN component_overrides \/ NOverrides < MaxOverrides
    /\ component_overrides' = insert(component_overrides, I, inst)
    /\ last' = Quiet
    /\ UNCHANGED <<phase, registered, provider_overrides, module, handles, refs,
                   mutref, stack, boxes, next_id>>

with_provider_override(I, f) ==
    /\ phase = "builder"
    /\ I \in DOMAIN registered \/ NOverrides < MaxOverrides
    /\ registered' = insert(registered, I, f)
    /\ provider_overrides' = insert(provider_overrides, ProviderFnKey(I), f)
    /\ last' = Quiet
    /\ UNCHANGED <<phase, component_overrides, module, handles, refs, mutref,
                   stack, boxes, next_id>>

\* The module built with the recorded component overrides in place.
BuildModule ==
    [I \in Components |->
        [inst   |-> IF I \in DOMAIN component_overrides
                    THEN component_overrides[I] ELSE DefaultInst(I),
         strong |-> 1]]

build ==
    /\ phase = "builder"
    /\ phase' = "built"
    /\ module' = BuildModule
    /\ last' = Quiet
    /\ UNCHANGED <<registered, component_overrides, provider_overrides, handles,
                   refs, mutref, stack, boxes, next_id>>

----------------------------------------------------------------------------
\* The caller's operations on a built container.

Idle == phase = "built" /\ stack = << >>

Resolve(I) ==
    /\ Idle /\ SharedBorrow
    /\ Len(handles) < MaxHandles
    /\ LET r == resolve(I) IN
        /\ module' = [module EXCEPT ![I] = r.arc]
        /\ handles' = Append(handles, [iface |-> I, inst |-> r.handle.inst])
        /\ last' = Saw("resolve", I, r.handle.inst, TRUE, NoCall)
    /\ UNCHANGED <<phase, registered, component_overrides, provider_overrides,
                   refs, mutref, stack, boxes, next_id>>

\* The caller drops one of its Arc handles.
DropHandle(i) ==
    /\ Idle
    /\ i \in 1..Len(handles)
    /\ module' = DropArcs(module, {handles[i].iface})
    /\ handles' = Remove(handles, i)
    /\ last' = Quiet
    /\ UNCHANGED <<phase, registered, component_overrides, provider_overrides,
                   refs, mutref, stack, boxes, next_id>>

ResolveRef(I) ==
    /\ Idle /\ SharedBorrow
    /\ refs' = refs \cup {I}
    /\ last' = Saw("resolve_ref", I, resolve_ref(I), TRUE, NoCall)
    /\ UNCHANGED <<phase, registered, component_overrides, provider_overrides,
                   module, handles, mutref, stack, boxes, next_id>>

\* The borrow of a &I ends.
ReleaseRef(I) ==
    /\ Idle
    /\ I \in refs
    /\ refs' = refs \ {I}
    /\ last' = Quiet
    /\ UNCHANGED <<phase, registered, component_overrides, provider_overrides,
                   module, handles, mutref, stack, boxes, next_id>>

ResolveMut(I) ==
    /\ Idle /\ ExclusiveBorrow
    /\ LET r == resolve_mut(I) IN
        /\ mutref' = IF r = None THEN None ELSE Some([iface |-> I, inst |-> r[1]])
        /\ last' = IF r = None THEN Saw("resolve_mut", I, "", FALSE, NoCall)
                   ELSE Saw("resolve_mut", I, r[1], TRUE, NoCall)
    /\ UNCHANGED <<phase, registered, component_overrides, provider_overrides,
                   module, handles, refs, stack, boxes, next_id>>

\* The borrow of the &mut I ends.
ReleaseMut ==
    /\ Idle
    /\ mutref # None
    /\ mutref' = None
    /\ last' = Quiet
    /\ UNCHANGED <<phase, registered, component_overrides, provider_overrides,
                   module, handles, refs, stack, boxes, next_id>>

\* The caller drops a provided service, and with it the Arcs it holds.
DropBox(i) ==
    /\ Idle
    /\ i \in 1..Len(boxes)
    /\ module' = DropArcs(module, boxes[i].held)
    /\ boxes' = Remove(boxes, i)
    /\ last' = Quiet
    /\ UNCHANGED <<phase, registered, component_overrides, provider_overrides,
                   handles, refs, mutref, stack, next_id>>

----------------------------------------------------------------------------
\* provide: a call enters the container, the selected factory runs (asking
\* the container for its dependencies), and its result goes back to the caller.

\* The container and what the caller owns, as a provide call finds them.
Snapshot == [module |-> module, provider_overrides |-> provider_overrides,
             boxes |-> boxes, next_id |-> next_id]

\* Container::provide entered for interface I (from the caller, or from a
\* provider that is constructing its service).
Enter(I) ==
    /\ stack' = Append(stack, Frame(I, Snapshot))
    /\ provider_overrides' = after_get(provider_overrides, ProviderFnKey(I))
    /\ last' = Saw("provide", I, "", FALSE,
                   [kind |-> provide(I).kind, name |-> provide(I).name])

Provide(I) ==
    /\ Idle /\ SharedBorrow
    /\ Len(boxes) < MaxBoxes
    /\ next_id + Need(I) <= MaxIds
    /\ Enter(I)
    /\ UNCHANGED <<phase, registered, component_overrides, module, handles, refs,
                   mutref, boxes, next_id>>

\* The running provider asks the container for a provided dependency.
ProviderProvide ==
    /\ stack # << >>
    /\ Top.res = None
    /\ Top.pc <= Len(Top.fn.deps)
    /\ Top.fn.deps[Top.pc].call = "provide"
    /\ Enter(Top.fn.deps[Top.pc].iface)
    /\ UNCHANGED <<phase, registered, component_overrides, module, handles, refs,
                   mutref, boxes, next_id>>

\* The running provider asks the container for a component and keeps the Arc.
ProviderResolve ==
    /\ stack # << >>
    /\ Top.res = None
    /\ Top.pc <= Len(Top.fn.deps)
    /\ Top.fn.deps[Top.pc].call = "resolve"
    /\ LET I == Top.fn.deps[Top.pc].iface
           r == resolve(I)
       IN
        /\ module' = [module EXCEPT ![I] = r.arc]
        /\ stack' = Append(Caller, [Top EXCEPT !.held = @ \cup {I}, !.pc = @ + 1])
        /\ last' = Saw("resolve", I, r.handle.inst, TRUE, NoCall)
    /\ UNCHANGED <<phase, registered, component_overrides, provider_overrides,
                   handles, refs, mutref, boxes, next_id>>

\* The running provider, its dependencies in hand, returns: a new boxed
\* service owning what it gathered, or an error (what it gathered is dropped).
ProviderConstruct(out) ==
    /\ stack # << >>
    /\ Top.res = None
    /\ Top.pc > Len(Top.fn.deps)
    /\ out \in Top.fn.outcomes
    /\ IF out = "ok"
       THEN /\ next_id' = next_id + 1
            /\ stack' = Append(Caller,
                  [Top EXCEPT !.res = Some(Ok([iface |-> Top.iface,
                                               id |-> NewBox(next_id),
                                               held |-> Top.held]))])
            /\ module' = module
       ELSE /\ next_id' = next_id
            /\ stack' = Append(Caller,
                  [Top EXCEPT !.res = Some(Err(Top.fn.err)), !.held = {},
                              !.org = Some([err |-> Top.fn.err,
                                            depth |-> Len(stack)])])
            /\ module' = DropArcs(module, Top.held)
    /\ last' = Quiet
    /\ UNCHANGED <<phase, registered, component_overrides, provider_overrides,
                   handles, refs, mutref, boxes>>

\* Container::provide returns what the factory returned.  The outermost call
\* returns to the caller, who owns the box; an inner call returns to the
\* provider that asked, which keeps the box or gives up with the error (`?`).
ProvideReturn ==
    /\ stack # << >>
    /\ Top.res # None
    /\ LET f == Top
           o == provide_outcome(f.res[1])
           r == o.value
           seen == [factory |-> f.res[1], returned |-> r, origin |-> f.org,
                    depth |-> Len(stack), pre |-> f.pre]
       IN
        IF ~o.done
        THEN /\ stack' = Append(Caller, [Top EXCEPT !.pc = 1, !.res = None])
             /\ last' = Saw("provide_retry", f.iface, "", FALSE, seen)
             /\ UNCHANGED <<boxes, module>>
        ELSE /\ last' = Saw("provide_return", f.iface, "", FALSE, seen)
             /\ IF Len(stack) = 1
                THEN /\ stack' = << >>
                     /\ boxes' = IF r.kind = "Ok" THEN Append(boxes, r.val) ELSE boxes
                     /\ module' = module
                ELSE LET p == stack[Len(stack) - 1]
                         q == IF r.kind = "Ok"
                              THEN [p EXCEPT !.held = @ \cup r.val.held, !.pc = @ + 1]
                              ELSE [p EXCEPT !.res = Some(r), !.held = {},
                                             !.org = f.org]
                     IN  /\ stack' = Append(SubSeq(stack, 1, Len(stack) - 2), q)
                         /\ boxes' = boxes
                         /\ module' = IF r.kind = "Ok" THEN module
                                      ELSE DropArcs(module, p.held)
    /\ UNCHANGED <<phase, registered, component_overrides, provider_overrides,
                   handles, refs, mutref, next_id>>

----------------------------------------------------------------------------

Next ==
    \/ \E I \in Components, inst \in OverrideInsts : with_component_override(I, inst)
    \/ \E I \in Provided, f \in OverrideFns : with_provider_override(I, f)
    \/ build
    \/ \E I \in Components : Resolve(I)
    \/ \E i \in 1..MaxHandles + 1 : DropHandle(i)
    \/ \E I \in Components : ResolveRef(I)
    \/ \E I \in Components : ReleaseRef(I)
    \/ \E I \in Components : ResolveMut(I)
    \/ ReleaseMut
    \/ \E I \in Provided : Provide(I)
    \/ ProviderProvide
    \/ ProviderResolve
    \/ \E out \in {"ok", "err"} : ProviderConstruct(out)
    \/ ProvideReturn
    \/ \E i \in 1..MaxBoxes + 1 : DropBox(i)

Spec == Init /\ [][Next]_vars

\* A provide in progress runs on: the calling thread executes the provider
\* and the return with nothing to wait for.
Running == ProviderProvide \/ ProviderResolve
              \/ (\E out \in {"ok", "err"} : ProviderConstruct(out)) \/ ProvideReturn

LiveSpec == Spec /\ WF_vars(Running)

----------------------------------------------------------------------------
\* Properties.

Built == phase = "built"

\* Arc handles to component I that are alive outside the module: the
\* caller's, those inside provided services, those a running provider holds.
Outstanding(I) ==
    Cardinality({i \in 1..Len(handles) : handles[i].iface = I})
      + Cardinality({i \in 1..Len(boxes) : I \in boxes[i].held})
      + Cardinality({i \in 1..Len(stack) : I \in stack[i].held})

\* A provide call has just returned, at this depth of the call chain.
Returned(depth) == last.op = "provide_return" /\ last.call.depth = depth

\* C1 (singleton identity): every handle resolve(I) returns, now or earlier,
\* points at the one instance the container was built with for I; resolve
\* makes no instance of its own.
C1_SingletonIdentity ==
    Built =>
      /\ \A I \in Components : module[I].inst = BuildModule[I].inst
      /\ \A i \in 1..Len(handles) :
            handles[i].inst = BuildModule[handles[i].iface].inst
      /\ last.op = "resolve" => last.inst = BuildModule[last.iface].inst

C1_Witness ==
    /\ last.op = "resolve"
    /\ Len(handles) = 2
    /\ handles[1].iface = handles[2].iface
    /\ module[last.iface].strong = 3

\* C2 (exclusive mutation): the strong count of I's Arc is one plus the
\* handles still outstanding, and resolve_mut(I) returns Some exactly when
\* that count is one, that is when no handle is outstanding.
C2_ExclusiveMutation ==
    Built =>
      /\ \A I \in Components : module[I].strong = 1 + Outstanding(I)
      /\ last.op = "resolve_mut" =>
            /\ last.some <=> (module[last.iface].strong = 1)
            /\ last.some <=> (Outstanding(last.iface) = 0)

C2_Witness ==
    /\ last.op = "resolve_mut"
    /\ ~last.some
    /\ \E i \in 1..Len(handles) : handles[i].iface = last.iface

\* C3 (aliasing safety): while a &mut to a component lives, no handle to that
\* component is outstanding, no &I from resolve_ref lives, no provide is in
\* progress, and the operation that ran last is none of resolve, resolve_ref
\* and provide.
C3_AliasingSafety ==
    mutref # None =>
      /\ Outstanding(mutref[1].iface) = 0
      /\ refs = {}
      /\ stack = << >>
      /\ last.op \notin {"resolve", "resolve_ref", "provide", "provide_return"}

C3_Witness ==
    /\ mutref # None
    /\ Len(handles) > 0
    /\ last.op = "none"

\* C4 (override precedence): every provide(I) call runs the override factory
\* registered for I when there is one, and the module's default provider for
\* I when there is none; never the other.
C4_OverridePrecedence ==
    /\ \A i \in 1..Len(stack) :
          stack[i].fn = IF stack[i].iface \in DOMAIN registered
                        THEN registered[stack[i].iface]
                        ELSE Impl(stack[i].iface)
    /\ last.op = "provide" =>
          /\ (last.call.kind = "override") <=> (last.iface \in DOMAIN registered)
          /\ (last.call.kind = "default") <=> (last.iface \notin DOMAIN registered)

C4_Witness ==
    /\ Len(stack) = 2
    /\ stack[1].fn.kind = "default"
    /\ stack[2].fn.kind = "override"
    /\ last.op = "provide"

C6_TransientFreshness ==
    /\ \A i, j \in 1..Len(boxes) : i # j => boxes[i].id # boxes[j].id
    /\ \A i \in 1..Len(boxes) : boxes[i].id <= next_id
    /\ (last.op = "provide_return" /\ last.call.returned.kind = "Ok") =>
          /\ last.call.returned.val.id > last.call.pre.next_id
          /\ \A i \in 1..Len(last.call.pre.boxes) :
                last.call.pre.boxes[i].id # last.call.returned.val.id

C6_Witness ==
    /\ Returned(1)
    /\ Len(boxes) = 2
    /\ boxes[1].iface = boxes[2].iface
    /\ boxes[1].iface \notin DOMAIN registered

C8_FailedProvideLeavesNoTrace ==
    (Returned(1) /\ last.call.returned.kind = "Err") =>
      /\ module = last.call.pre.module
      /\ provider_overrides = last.call.pre.provider_overrides
      /\ boxes = last.call.pre.boxes
      /\ stack = << >>

C8_Witness ==
    /\ Returned(1)
    /\ last.call.returned.kind = "Err"
    /\ last.call.origin[1].err = ErrOf("P2")
    /\ last.iface = "P1"

\* C9 (component override): in a container built with a component override
\* for I, resolve, resolve_ref and resolve_mut all refer to the override
\* instance, which is the module's one instance for I.
C9_ComponentOverride ==
    Built => \A I \in DOMAIN component_overrides :
      /\ module[I].inst = component_overrides[I]
      /\ resolve(I).handle.inst = component_overrides[I]
      /\ resolve_ref(I) = component_overrides[I]
      /\ resolve_mut(I) # None => resolve_mut(I)[1] = component_overrides[I]
      /\ \A i \in 1..Len(handles) :
            handles[i].iface = I => handles[i].inst = component_overrides[I]
      /\ (last.iface = I /\ last.op \in {"resolve", "resolve_ref"}) =>
            last.inst = component_overrides[I]
      /\ (last.iface = I /\ last.op = "resolve_mut" /\ last.some) =>
            last.inst = component_overrides[I]

C9_Witness ==
    /\ Built
    /\ last.op = "resolve_mut"
    /\ last.iface \in DOMAIN component_overrides
    /\ last.some

\* C10 (completion): a provide call in progress eventually returns, through
\* every recursive provide and resolve its providers make.
C10_ProvideCompletes == (stack # << >>) ~> (stack = << >>)

C10_Witness == Len(stack) = 3 /\ Top.iface = "P3"

====
